---- MODULE Spec2Model ----
(***************************************************************************)
(* Model of service.py: PranaDeviceManager (the registry of sessions) and  *)
(* PranaDevice (one session per address) running on an asyncio event loop. *)
(* Coroutines are tasks; a task runs without interruption from one await   *)
(* to the next, so every action below is the code between two suspension   *)
(* points.  The BLE client (bleak.BleakClient) and the scanner are the      *)
(* environment: each transport call completes with success or with an      *)
(* error, chosen nondeterministically.                                      *)
(*                                                                         *)
(* Spec runs two tasks concurrently against one address; SpecSeq runs one   *)
(* task, one call at a time, on two addresses and includes                  *)
(* test_retrieve_state; SpecOne is SpecSeq on one address.  SpecDecode      *)
(* applies the state decoder, and SpecDiscover the identity filter of       *)
(* discover, to inputs drawn from bounded sets.                             *)
(***************************************************************************)
EXTENDS Integers, Sequences, FiniteSets, TLC

\* ------------------------------------------------------------------ bounds
\* Number of PranaDevice objects that can be constructed.
MaxDev == 3
\* Number of temporary clients test_retrieve_state can open.
MaxTemp == 1
\* Number of start_notify registrations a client keeps count of.
MaxSubs == 2
\* Number of name pieces an advertised name is built from.
MaxTokens == 4
\* Number of advertisements in one scan.
MaxScan == 3

Tasks == {"t1", "t2"}
Addresses == {"a1", "a2"}
Devs == 1..MaxDev
Handles == 1..(MaxDev + MaxTemp)
\* None: no device, no client.
NoDev == 0
NoHandle == NoDev

\* ------------------------------------------------------- program constants
PRANA_DEVICE_NAME_PREFIX == <<"P", "R", "N", "A", "Q", "a", "q">>

\* The command operations of PranaDevice and the command each one sends.
CommandOps == {"set_high_speed", "set_night_mode", "turn_off", "read_state"}

ENABLE_HIGH_SPEED == <<190, 239, 4, 7>>
ENABLE_NIGHT_MODE == <<190, 239, 4, 6>>
STOP == <<190, 239, 4, 1>>
READ_STATE == <<190, 239, 5, 1, 0, 0, 0, 0, 90>>

CmdOf(op) ==
    CASE op = "set_high_speed" -> ENABLE_HIGH_SPEED
      [] op = "set_night_mode" -> ENABLE_NIGHT_MODE
      [] op = "turn_off" -> STOP
      [] op = "read_state" -> READ_STATE

\* Mutant: _send_command returns what it read whatever expect_reply is.
AlwaysReplies(op) == TRUE

\* expect_reply of _send_command: only read_state passes True.
ExpectReply(op) == op = "read_state"

\* ------------------------------------------------------------------ state
VARIABLES
    managed,      \* PranaDeviceManager.__managed_devices: address -> device (NoDev: absent)
    order,        \* insertion order of the keys of __managed_devices
    nDev,         \* number of PranaDevice objects constructed so far
    devAddr,      \* PranaDevice.__address of each constructed device
    hasAttempts,  \* PranaDevice.__has_connect_attempts
    client,       \* PranaDevice.__client: the handle the device holds
    nTemp,        \* number of temporary clients opened by test_retrieve_state
    linkUp,       \* transport: the client is connected
    subs,         \* transport: notification registrations on the client
    charVal,      \* physical device: who wrote the value its control characteristic holds
    tasks,        \* the coroutines: position and locals of each
    payload,      \* SpecDecode: the bytes handed to __parse_state
    decoded,      \* SpecDecode: what __parse_state made of them
    scanned,      \* SpecDiscover: the advertisements bleak.discover delivered
    found         \* SpecDiscover: what discover returned for them

vars == <<managed, order, nDev, devAddr, hasAttempts, client, nTemp,
          linkUp, subs, charVal, tasks, payload, decoded, scanned, found>>

\* The inputs and results of the pure functions; the calls of the registry
\* and of the session leave them alone.
pure == <<payload, decoded, scanned, found>>
\* Before the function has been applied.
NotDecoded == [kind |-> "pending"]
NotFound == [ready |-> FALSE, devs |-> <<>>]

registry == <<managed, order, nDev, devAddr>>
transport == <<linkUp, subs, charVal>>

\* What _send_command returns: None, or the bytes read.
NoBytes == [some |-> FALSE, bytes |-> <<>>]
SomeBytes(bytes) == [some |-> TRUE, bytes |-> bytes]

\* A task that runs nothing.  The fields of a task:
\*   pc      where the coroutine is suspended ("idle": no call, "done": the
\*           call has returned or raised and the caller has not taken it yet)
\*   op      the operation called; cmd: the command operation in progress
\*   dev     self of a PranaDevice method, or the device connect resolved
\*   addr    the address the call resolved
\*   h       the client on which the awaited transport operation was issued
\*   trace   the operations the call has awaited, in order
\*   badTarget   the target passed is neither a string nor a PranaDeviceInfo
\*   result  the bytes read_gatt_char delivered (line 129)
\*   rbytes  what _send_command returned: the bytes, or None
\*   rstate  what read_state returned
\*   err     the exception the call raised ("none": it returned)
\*   rdev, rbool, rval, rfound   the value returned
\*   it, size, visited   the iterator of disconnect_all and the devices
\*           whose disconnect it has invoked
\*   flag0   __has_connect_attempts of dev when the call started
\*   conn0   whether dev was connected (flag set, link up) when a connect
\*           was called
\*   inTest, temp   inside the "async with" of test_retrieve_state, and its
\*           temporary client
IdleTask ==
    [pc |-> "idle", op |-> "none", dev |-> NoDev, h |-> NoHandle, addr |-> "none",
     cmd |-> "none", trace |-> <<>>, err |-> "none", rdev |-> NoDev, rbool |-> FALSE,
     rval |-> "none", rfound |-> <<>>,
     badTarget |-> FALSE, result |-> <<>>, rbytes |-> NoBytes, rstate |-> NotDecoded,
     it |-> 0, size |-> 0, visited |-> {},
     flag0 |-> FALSE, conn0 |-> FALSE, inTest |-> FALSE, temp |-> NoHandle]

ProgramInit ==
    /\ managed = [a \in Addresses |-> NoDev]
    /\ order = <<>>
    /\ nDev = 0
    /\ devAddr = [d \in Devs |-> "none"]
    /\ hasAttempts = [d \in Devs |-> FALSE]
    /\ client = [d \in Devs |-> NoHandle]
    /\ nTemp = 0
    /\ linkUp = [h \in Handles |-> FALSE]
    /\ subs = [h \in Handles |-> 0]
    /\ charVal = [a \in Addresses |-> "none"]
    /\ tasks = [t \in Tasks |-> IdleTask]

Init ==
    /\ ProgramInit
    /\ payload = <<>> /\ decoded = NotDecoded
    /\ scanned = <<>> /\ found = NotFound

Created == 1..nDev

\* ------------------------------------------------------------ task helpers
Set(t, rec) == tasks' = [tasks EXCEPT ![t] = rec] /\ UNCHANGED pure

\* The call of task t performs one more transport operation on handle h and
\* suspends at pc until it completes.
Issue(rec, pc, h, what) ==
    [rec EXCEPT !.pc = pc, !.h = h, !.trace = Append(@, what)]

\* A call ends (returns or raises).  Inside test_retrieve_state the end of
\* read_state leaves the "async with" block, whose exit disconnects the
\* temporary client (line 169).
Finish(rec) ==
    IF rec.inTest
    THEN Issue(rec, "tr_close", rec.temp, "close")
    ELSE [rec EXCEPT !.pc = "done", !.h = NoHandle]

Raise(rec, e) == Finish([rec EXCEPT !.err = e])

\* ------------------------------------------------------------ state decoder
Bytes == 0..255

\* PranaDevice.STATE_MSG_PREFIX (line 66)
STATE_MSG_PREFIX == <<190, 239>>

\* data[:n]: the first n bytes, fewer when data is shorter.
SliceTo(data, n) == SubSeq(data, 1, IF Len(data) < n THEN Len(data) ELSE n)

\* Mutant: the marker is not looked at.
AnyMsgIsState(data) == TRUE

\* data[:2] == self.STATE_MSG_PREFIX (line 146)
IsStateMsg(data) == SliceTo(data, 2) = STATE_MSG_PREFIX

\* Mutant: the offsets are taken as one-based.
ByteAtOneBased(data, i) == data[i]

\* data[i]: Python indexes from 0.
ByteAt(data, i) == data[i + 1]

\* bool(b) of an integer
Bool(b) == b # 0

\* int(b / 10): the true quotient truncated toward zero, which for a byte
\* is the integer quotient.
IntTenth(b) == b \div 10

\* The offsets __parse_state reads (lines 148-158).
StateOffsets == {26, 30, 34, 20, 16, 22, 10, 14, 42, 28, 32}

NoState ==
    [speed_locked |-> 0, speed_in |-> 0, speed_out |-> 0,
     auto_mode |-> FALSE, night_mode |-> FALSE, flows_locked |-> FALSE,
     is_on |-> FALSE, mini_heating_enabled |-> FALSE, winter_mode_enabled |-> FALSE,
     is_input_fan_on |-> FALSE, is_output_fan_on |-> FALSE]

\* PranaDevice.__parse_state (lines 145-161).  kind is "None" when None is
\* returned, "PranaState" when a state is returned, and "IndexError" when an
\* offset lies beyond the end of data.
parse_state(data) ==
    IF ~IsStateMsg(data)
    THEN [kind |-> "None", s |-> NoState]
    ELSE IF \E o \in StateOffsets : o >= Len(data)
    THEN [kind |-> "IndexError", s |-> NoState]
    ELSE [kind |-> "PranaState",
          s |-> [speed_locked |-> IntTenth(ByteAt(data, 26)),
                 speed_in |-> IntTenth(ByteAt(data, 30)),
                 speed_out |-> IntTenth(ByteAt(data, 34)),
                 auto_mode |-> Bool(ByteAt(data, 20)),
                 night_mode |-> Bool(ByteAt(data, 16)),
                 flows_locked |-> Bool(ByteAt(data, 22)),
                 is_on |-> Bool(ByteAt(data, 10)),
                 mini_heating_enabled |-> Bool(ByteAt(data, 14)),
                 winter_mode_enabled |-> Bool(ByteAt(data, 42)),
                 is_input_fan_on |-> Bool(ByteAt(data, 28)),
                 is_output_fan_on |-> Bool(ByteAt(data, 32))]]

\* The payloads the decoder is applied to: a two-byte head, every other
\* byte equal to a background value except one byte at any position, which
\* takes every value; every short payload over the marker bytes; and marked
\* payloads one byte too short for the last offset.
Heads == {<<190, 239>>, <<190, 238>>, <<0, 239>>}
Backgrounds == {0, 255}
PayloadLens == {43, 44}
MarkerBytes == {190, 239, 0}

LongPayload(head, bg, len, at, b) ==
    [i \in 1..len |-> IF i <= 2 THEN head[i] ELSE IF i = at + 1 THEN b ELSE bg]

ShortPayloads ==
    UNION {[1..n -> MarkerBytes] : n \in 0..3}
    \cup {LongPayload(STATE_MSG_PREFIX, bg, 42, at, 1) : bg \in Backgrounds, at \in StateOffsets}

PayloadInputs ==
    {LongPayload(head, bg, len, at, b) :
         head \in Heads, bg \in Backgrounds, len \in PayloadLens,
         at \in 2..43, b \in Bytes}
    \cup ShortPayloads

\* What the control characteristic can hold when it is read: a state
\* message, bytes of another shape, nothing, and a state message cut short.
ReadPayloads ==
    {LongPayload(STATE_MSG_PREFIX, 0, 43, 30, 25),
     LongPayload(<<0, 239>>, 0, 43, 30, 25),
     <<>>,
     <<190, 239, 5>>}

InitDecode ==
    /\ ProgramInit
    /\ payload \in PayloadInputs /\ decoded = NotDecoded
    /\ scanned = <<>> /\ found = NotFound

\* __parse_state is applied to the payload.
Decode ==
    /\ decoded = NotDecoded
    /\ decoded' = parse_state(payload)
    /\ UNCHANGED <<registry, hasAttempts, client, nTemp, transport, tasks,
                   payload, scanned, found>>

NextDecode == Decode

SpecDecode == InitDecode /\ [][NextDecode]_vars

\* ------------------------------------------------- device identity filter
Whitespace == {" ", "\t", "\n"}

\* str.startswith
StartsWith(s, p) == Len(s) >= Len(p) /\ SubSeq(s, 1, Len(p)) = p

\* p in s: p occurs somewhere in s.
Contains(s, p) ==
    \E i \in 1..(Len(s) - Len(p) + 1) : SubSeq(s, i, i + Len(p) - 1) = p

\* str.replace(p, ''): every non-overlapping occurrence, left to right.
RECURSIVE Replace(_, _)
Replace(s, p) ==
    IF s = <<>> THEN <<>>
    ELSE IF StartsWith(s, p) THEN Replace(SubSeq(s, Len(p) + 1, Len(s)), p)
    ELSE <<Head(s)>> \o Replace(Tail(s), p)

RECURSIVE LStrip(_)
LStrip(s) ==
    IF s # <<>> /\ Head(s) \in Whitespace THEN LStrip(Tail(s)) ELSE s

RECURSIVE RStrip(_)
RStrip(s) ==
    IF s # <<>> /\ s[Len(s)] \in Whitespace THEN RStrip(SubSeq(s, 1, Len(s) - 1)) ELSE s

\* str.strip
Strip(s) == RStrip(LStrip(s))

\* An advertisement: dev.name is None when hasName is FALSE.
Advert(a, hasName, name, rssi) ==
    [address |-> a, hasName |-> hasName, name |-> name, rssi |-> rssi]

\* Mutant: the prefix may occur anywhere in the name.
PrefixAnywhere(dev) ==
    dev.hasName /\ dev.name # <<>> /\ Contains(dev.name, PRANA_DEVICE_NAME_PREFIX)

\* PranaDeviceManager.__is_prana_device (line 19)
is_prana_device(dev) ==
    dev.hasName /\ dev.name # <<>> /\ StartsWith(dev.name, PRANA_DEVICE_NAME_PREFIX)

\* Mutant: the name is not trimmed after the prefix is removed.
NameNotTrimmed(dev_name) ==
    IF dev_name # <<>> THEN Replace(dev_name, PRANA_DEVICE_NAME_PREFIX) ELSE dev_name

\* PranaDeviceManager.__prana_dev_name_2_name (line 23)
prana_dev_name_2_name(dev_name) ==
    IF dev_name # <<>> THEN Strip(Replace(dev_name, PRANA_DEVICE_NAME_PREFIX)) ELSE dev_name

\* The PranaDeviceInfo discover builds for an accepted advertisement (lines 43-44).
DeviceInfo(dev) ==
    [address |-> dev.address, bt_device_name |-> Strip(dev.name),
     name |-> prana_dev_name_2_name(dev.name), rssi |-> dev.rssi]

\* list(map(..., filter(__is_prana_device, discovered_devs)))
DiscoverResult(discovered_devs) ==
    LET kept == SelectSeq(discovered_devs, is_prana_device)
    IN [i \in 1..Len(kept) |-> DeviceInfo(kept[i])]

LivingRoom == PRANA_DEVICE_NAME_PREFIX \o <<" ", "L", "R">>
Other == <<"x", " ">> \o PRANA_DEVICE_NAME_PREFIX

\* What the scanner can deliver in one scan.
ScanResults ==
    { <<>>,
      <<Advert("a1", TRUE, LivingRoom, -60), Advert("a2", FALSE, <<>>, -70)>>,
      <<Advert("a2", TRUE, Other, -50), Advert("a1", TRUE, LivingRoom, -60)>> }

\* The advertised names discover is applied to: every concatenation of at
\* most MaxTokens pieces, among them the prefix and its two halves.
NameTokens ==
    {PRANA_DEVICE_NAME_PREFIX, <<"P", "R", "N", "A">>, <<"Q", "a", "q">>, <<" ">>, <<"x">>}

RECURSIVE Names(_)
Names(n) ==
    IF n = 0 THEN {<<>>}
    ELSE LET shorter == Names(n - 1) IN
         shorter \cup {name \o piece : name \in shorter, piece \in NameTokens}

\* The i-th advertisement of a scan.
ScanAddress(i) == IF i % 2 = 1 THEN "a1" ELSE "a2"
ScanRssi(i) == 0 - (50 + i)

\* The advertisements that can stand at position i of a scan of several.
AdvertsAt(i) ==
    {Advert(ScanAddress(i), TRUE, name, ScanRssi(i)) :
         name \in {LivingRoom, Other, PRANA_DEVICE_NAME_PREFIX, <<>>}}
    \cup {Advert(ScanAddress(i), FALSE, <<>>, ScanRssi(i))}

\* Scans of one advertisement with every name, and scans of up to MaxScan
\* advertisements with a few names.
ScanInputs ==
    {<<Advert(ScanAddress(1), TRUE, name, ScanRssi(1))>> : name \in Names(MaxTokens)}
    \cup UNION {{scan \in [1..n -> UNION {AdvertsAt(i) : i \in 1..n}] :
                     \A i \in 1..n : scan[i] \in AdvertsAt(i)} : n \in 0..MaxScan}

InitDiscover ==
    /\ ProgramInit
    /\ payload = <<>> /\ decoded = NotDecoded
    /\ scanned \in ScanInputs /\ found = NotFound

\* discover maps and filters what the scanner delivered (lines 43-46).
Discover ==
    /\ ~found.ready
    /\ found' = [ready |-> TRUE, devs |-> DiscoverResult(scanned)]
    /\ UNCHANGED <<registry, hasAttempts, client, nTemp, transport, tasks,
                   payload, decoded, scanned>>

NextDiscover == Discover

SpecDiscover == InitDiscover /\ [][NextDiscover]_vars

\* ---------------------------------------------------------------- registry
\* What a caller can pass as target: an address string, a PranaDeviceInfo
\* carrying an address, or anything else (which may carry an address too).
TargetsOf(A) == [kind : {"str", "info", "other"}, address : A]

\* Mutant: any object that carries an address is taken.
AcceptsAnyTarget(target) == TRUE

\* PranaDeviceManager.__addr_for_target (lines 27-34): the isinstance tests.
IsValidTarget(target) == target.kind \in {"str", "info"}
addr_for_target(target) == target.address

\* Mutant: the lookup result is ignored and a device is always constructed.
AlwaysCreate(m, address) == TRUE

\* Mutant: a registered device that never connected is constructed anew.
RecreateUnconnected(m, address) == m[address] = NoDev \/ ~hasAttempts[m[address]]

\* device is None (line 51)
NeedsCreate(m, address) == m[address] = NoDev

\* Mutant: the new device is not stored.
ForgetDevice(m, address, device) == m

\* self.__managed_devices[address] = device (line 53)
StoreDevice(m, address, device) == [m EXCEPT ![address] = device]

\* Mutant: the flag is set before client.connect is awaited.
FlagSetAtAttempt(flag, ok) == TRUE

\* Mutant: the flag is never set.
FlagNeverSet(flag, ok) == flag

\* self.__has_connect_attempts after client.connect returned or raised
\* (lines 113-114): the assignment is reached only if connect did not raise.
FlagAfterOpen(flag, ok) == IF ok THEN TRUE ELSE flag

\* Mutant: is_connected always asks the client.
NeverShortCircuits(flag) == FALSE

\* not self.__has_connect_attempts (line 122): is_connected answers False
\* without asking the client.
ShortCircuits(flag) == ~flag

\* Mutant: once the flag is set is_connected trusts it.
TrustsFlag(flag, status) == flag

\* return await self.__client.is_connected() (line 124)
IsConnectedResult(flag, status) == status

\* Start of PranaDevice.connect on device d: client.connect is awaited (line 113).
ConnectStart(rec, d, h) ==
    Issue([rec EXCEPT !.dev = d, !.flag0 = hasAttempts[d],
                      !.conn0 = hasAttempts[d] /\ linkUp[h]],
          "c_open", h, "open")

\* PranaDeviceManager.connect up to its first suspension (lines 49-55).
MgrConnectCall(t, target) ==
    /\ tasks[t].pc = "idle"
    /\ UNCHANGED <<nTemp, transport>>
    /\ LET rec == [IdleTask EXCEPT !.op = "mgr_connect",
                                   !.badTarget = target.kind \notin {"str", "info"}] IN
       IF ~IsValidTarget(target)
       THEN /\ Set(t, [rec EXCEPT !.pc = "done", !.err = "ValueError"])
            /\ UNCHANGED <<registry, hasAttempts, client>>
       ELSE LET address == addr_for_target(target) IN
            IF NeedsCreate(managed, address)
            THEN /\ nDev < MaxDev
                 /\ LET d == nDev + 1 IN
                    /\ nDev' = d
                    /\ devAddr' = [devAddr EXCEPT ![d] = address]
                    /\ client' = [client EXCEPT ![d] = d]
                    /\ hasAttempts' = [hasAttempts EXCEPT ![d] = FALSE]
                    /\ managed' = StoreDevice(managed, address, d)
                    /\ order' = IF managed[address] = NoDev /\ managed'[address] # NoDev
                                THEN Append(order, address) ELSE order
                    /\ Set(t, ConnectStart([rec EXCEPT !.addr = address], d, d))
            ELSE /\ UNCHANGED <<registry, hasAttempts, client>>
                 /\ Set(t, ConnectStart([rec EXCEPT !.addr = address],
                                        managed[address], client[managed[address]]))

\* PranaDevice.connect called directly on a device (line 111).
DevConnectCall(t, d) ==
    /\ tasks[t].pc = "idle"
    /\ d \in Created
    /\ Set(t, ConnectStart([IdleTask EXCEPT !.op = "dev_connect", !.addr = devAddr[d]],
                           d, client[d]))
    /\ UNCHANGED <<registry, hasAttempts, client, nTemp, transport>>

\* client.connect completes (line 113); on success the flag is set and
\* start_notify is awaited on the device's client (lines 114-115).
OpenDone(t, ok) ==
    LET rec == tasks[t] IN
    /\ rec.pc = "c_open"
    /\ hasAttempts' = [hasAttempts EXCEPT ![rec.dev] = FlagAfterOpen(@, ok)]
    /\ IF ok
       THEN /\ linkUp' = [linkUp EXCEPT ![rec.h] = TRUE]
            /\ Set(t, Issue(rec, "c_notify", client[rec.dev], "subscribe"))
       ELSE /\ UNCHANGED linkUp
            /\ Set(t, Raise(rec, "TransportError"))
    /\ UNCHANGED <<registry, client, nTemp, subs, charVal>>

\* start_notify completes (line 115); PranaDeviceManager.connect then
\* returns the device (line 56).
NotifyDone(t, ok) ==
    LET rec == tasks[t] IN
    /\ rec.pc = "c_notify"
    /\ ok => linkUp[rec.h] /\ subs[rec.h] < MaxSubs
    /\ IF ok
       THEN /\ subs' = [subs EXCEPT ![rec.h] = @ + 1]
            /\ Set(t, Finish([rec EXCEPT !.rdev = IF rec.op = "mgr_connect"
                                                  THEN rec.dev ELSE NoDev]))
       ELSE /\ Set(t, Raise(rec, "TransportError"))
            /\ UNCHANGED subs
    /\ UNCHANGED <<registry, hasAttempts, client, nTemp, linkUp, charVal>>

\* The effect of a completed client.disconnect on the transport.
Closed(h) ==
    /\ linkUp' = [linkUp EXCEPT ![h] = FALSE]
    /\ subs' = [subs EXCEPT ![h] = 0]
    /\ UNCHANGED charVal

\* PranaDevice.disconnect (lines 118-119).
DevDisconnectCall(t, d) ==
    /\ tasks[t].pc = "idle"
    /\ d \in Created
    /\ Set(t, Issue([IdleTask EXCEPT !.op = "dev_disconnect", !.dev = d,
                                     !.flag0 = hasAttempts[d]],
                    "d_close", client[d], "close"))
    /\ UNCHANGED <<registry, hasAttempts, client, nTemp, transport>>

\* Mutant: a completed disconnect resets the flag.
CloseDoneResetsFlag(t, ok) ==
    LET rec == tasks[t] IN
    /\ rec.pc = "d_close"
    /\ IF ok
       THEN /\ Closed(rec.h) /\ Set(t, Finish(rec))
            /\ hasAttempts' = [hasAttempts EXCEPT ![rec.dev] = FALSE]
       ELSE /\ UNCHANGED transport /\ Set(t, Raise(rec, "TransportError"))
            /\ UNCHANGED hasAttempts
    /\ UNCHANGED <<registry, client, nTemp>>

\* client.disconnect completes (line 119).
CloseDone(t, ok) ==
    LET rec == tasks[t] IN
    /\ rec.pc = "d_close"
    /\ IF ok
       THEN Closed(rec.h) /\ Set(t, Finish(rec))
       ELSE UNCHANGED transport /\ Set(t, Raise(rec, "TransportError"))
    /\ UNCHANGED <<registry, hasAttempts, client, nTemp>>

\* The next value of the iteration over __managed_devices.values() (line 59):
\* the iterator raises when the dictionary changed size, stops after the
\* last value, and otherwise disconnect is awaited on the next device.
NextManaged(rec) ==
    IF Len(order) # rec.size
    THEN [rec EXCEPT !.pc = "done", !.h = NoHandle, !.err = "RuntimeError"]
    ELSE IF rec.it = rec.size
    THEN [rec EXCEPT !.pc = "done", !.h = NoHandle]
    ELSE LET d == managed[order[rec.it + 1]] IN
         Issue([rec EXCEPT !.it = @ + 1, !.visited = @ \cup {d}],
               "da_close", client[d], "close")

\* PranaDeviceManager.disconnect_all (lines 58-60).
DisconnectAllCall(t) ==
    /\ tasks[t].pc = "idle"
    /\ Set(t, NextManaged([IdleTask EXCEPT !.op = "disconnect_all", !.size = Len(order)]))
    /\ UNCHANGED <<registry, hasAttempts, client, nTemp, transport>>

\* dev.disconnect() of the loop completes (line 60): an error leaves the loop.
DisconnectAllStep(t, ok) ==
    LET rec == tasks[t] IN
    /\ rec.pc = "da_close"
    /\ IF ok
       THEN Closed(rec.h) /\ Set(t, NextManaged(rec))
       ELSE /\ UNCHANGED transport
            /\ Set(t, [rec EXCEPT !.pc = "done", !.h = NoHandle, !.err = "TransportError"])
    /\ UNCHANGED <<registry, hasAttempts, client, nTemp>>

\* ----------------------------------------------------------------- session
\* PranaDevice.is_connected (lines 121-124).
IsConnectedCall(t, d) ==
    /\ tasks[t].pc = "idle"
    /\ d \in Created
    /\ LET rec == [IdleTask EXCEPT !.op = "is_connected", !.dev = d,
                                   !.flag0 = hasAttempts[d]] IN
       IF ShortCircuits(hasAttempts[d])
       THEN Set(t, [rec EXCEPT !.pc = "done", !.rbool = FALSE])
       ELSE Set(t, Issue(rec, "q_status", client[d], "status"))
    /\ UNCHANGED <<registry, hasAttempts, client, nTemp, transport>>

\* client.is_connected() answers (line 124).
StatusDone(t) ==
    LET rec == tasks[t] IN
    /\ rec.pc = "q_status"
    /\ Set(t, [rec EXCEPT !.pc = "done", !.h = NoHandle, !.rbool = IsConnectedResult(hasAttempts[rec.dev], linkUp[rec.h])])
    /\ UNCHANGED <<registry, hasAttempts, client, nTemp, transport>>

\* __verify_connected at the start of a command (lines 102-104, 122-124).
VerifyStart(rec) ==
    IF ShortCircuits(hasAttempts[rec.dev])
    THEN Raise(rec, "RuntimeError")
    ELSE Issue(rec, "v_status", client[rec.dev], "status")

\* set_high_speed, set_night_mode, turn_off, read_state (lines 133-143, 163-165).
CommandCall(t, d, op) ==
    /\ tasks[t].pc = "idle"
    /\ d \in Created
    /\ op \in CommandOps
    /\ Set(t, VerifyStart([IdleTask EXCEPT !.op = op, !.cmd = op, !.dev = d,
                                           !.flag0 = hasAttempts[d]]))
    /\ UNCHANGED <<registry, hasAttempts, client, nTemp, transport>>

\* Mutant: a failed connection check resets the flag.
VerifyDoneResetsFlag(t) ==
    LET rec == tasks[t] IN
    /\ rec.pc = "v_status"
    /\ IF IsConnectedResult(hasAttempts[rec.dev], linkUp[rec.h])
       THEN Set(t, Issue(rec, "w_write", client[rec.dev], "write")) /\ UNCHANGED hasAttempts
       ELSE /\ Set(t, Raise(rec, "RuntimeError"))
            /\ hasAttempts' = [hasAttempts EXCEPT ![rec.dev] = FALSE]
    /\ UNCHANGED <<registry, client, nTemp, transport>>

\* The status query of __verify_connected answers; when connected,
\* _send_command awaits write_gatt_char (line 127).
VerifyDone(t) ==
    LET rec == tasks[t] IN
    /\ rec.pc = "v_status"
    /\ IF IsConnectedResult(hasAttempts[rec.dev], linkUp[rec.h])
       THEN Set(t, Issue(rec, "w_write", client[rec.dev], "write"))
       ELSE Set(t, Raise(rec, "RuntimeError"))
    /\ UNCHANGED <<registry, hasAttempts, client, nTemp, transport>>

\* write_gatt_char completes (line 127); then asyncio.sleep(0.6) (line 128).
WriteDone(t, ok) ==
    LET rec == tasks[t] IN
    /\ rec.pc = "w_write"
    /\ ok => linkUp[rec.h]
    /\ IF ok
       THEN /\ charVal' = [charVal EXCEPT ![devAddr[rec.dev]] = t]
            /\ Set(t, Issue(rec, "w_sleep", NoHandle, "sleep"))
       ELSE /\ UNCHANGED charVal
            /\ Set(t, Raise(rec, "TransportError"))
    /\ UNCHANGED <<registry, hasAttempts, client, nTemp, linkUp, subs>>

\* The settle delay ends; read_gatt_char is awaited (line 129).
SleepDone(t) ==
    LET rec == tasks[t] IN
    /\ rec.pc = "w_sleep"
    /\ Set(t, Issue(rec, "w_read", client[rec.dev], "read"))
    /\ UNCHANGED <<registry, hasAttempts, client, nTemp, transport>>

\* _send_command returns (lines 130-131) and, in read_state, the bytes are
\* decoded (line 166); an offset beyond the end of the bytes raises.
AfterRead(rec, bytes) ==
    LET sent == [rec EXCEPT !.result = bytes,
                            !.rbytes = IF ExpectReply(rec.cmd) THEN SomeBytes(bytes) ELSE NoBytes,
                            !.rval = IF ExpectReply(rec.cmd)
                                     THEN charVal[devAddr[rec.dev]] ELSE "none"]
        state == parse_state(sent.rbytes.bytes)
    IN IF rec.cmd # "read_state" THEN Finish(sent)
       ELSE IF state.kind = "IndexError" THEN Raise(sent, "IndexError")
       ELSE Finish([sent EXCEPT !.rstate = state])

\* read_gatt_char completes (lines 129-131).
ReadDone(t, ok) ==
    LET rec == tasks[t] IN
    /\ rec.pc = "w_read"
    /\ ok => linkUp[rec.h]
    /\ IF ok
       THEN \E bytes \in ReadPayloads : Set(t, AfterRead(rec, bytes))
       ELSE Set(t, Raise(rec, "TransportError"))
    /\ UNCHANGED <<registry, hasAttempts, client, nTemp, transport>>

\* PranaDevice.test_retrieve_state (lines 168-171): a new client for the
\* device's address is opened by "async with".
TestCall(t, d) ==
    /\ tasks[t].pc = "idle"
    /\ d \in Created
    /\ nTemp < MaxTemp
    /\ nTemp' = nTemp + 1
    /\ Set(t, Issue([IdleTask EXCEPT !.op = "test_retrieve_state", !.dev = d,
                                     !.flag0 = hasAttempts[d], !.temp = MaxDev + nTemp'],
                    "tr_open", MaxDev + nTemp', "open"))
    /\ UNCHANGED <<registry, hasAttempts, client, transport>>

\* The temporary client is open: it replaces the device's client (line 170)
\* and read_state starts (line 171).
TestOpenDone(t, ok) ==
    LET rec == tasks[t] IN
    /\ rec.pc = "tr_open"
    /\ IF ok
       THEN /\ linkUp' = [linkUp EXCEPT ![rec.h] = TRUE]
            /\ client' = [client EXCEPT ![rec.dev] = rec.temp]
            /\ Set(t, VerifyStart([rec EXCEPT !.inTest = TRUE, !.cmd = "read_state"]))
       ELSE /\ UNCHANGED <<linkUp, client>>
            /\ Set(t, [rec EXCEPT !.pc = "done", !.h = NoHandle, !.err = "TransportError"])
    /\ UNCHANGED <<registry, hasAttempts, nTemp, subs, charVal>>

\* Leaving "async with": the temporary client's disconnect completes.
TestCloseDone(t, ok) ==
    LET rec == tasks[t] IN
    /\ rec.pc = "tr_close"
    /\ IF ok
       THEN Closed(rec.h) /\ Set(t, [rec EXCEPT !.pc = "done", !.h = NoHandle])
       ELSE /\ UNCHANGED transport
            /\ Set(t, [rec EXCEPT !.pc = "done", !.h = NoHandle, !.err = "TransportError"])
    /\ UNCHANGED <<registry, hasAttempts, client, nTemp>>

\* PranaDeviceManager.discover (lines 36-46).
DiscoverCall(t) ==
    /\ tasks[t].pc = "idle"
    /\ Set(t, [IdleTask EXCEPT !.op = "discover", !.pc = "disc"])
    /\ UNCHANGED <<registry, hasAttempts, client, nTemp, transport>>

DiscoverDone(t, discovered_devs) ==
    LET rec == tasks[t] IN
    /\ rec.pc = "disc"
    /\ Set(t, [rec EXCEPT !.pc = "done", !.rfound = DiscoverResult(discovered_devs)])
    /\ UNCHANGED <<registry, hasAttempts, client, nTemp, transport>>

\* The caller takes the result (or the exception) of a finished call.
Return(t) ==
    /\ tasks[t].pc = "done"
    /\ Set(t, IdleTask)
    /\ UNCHANGED <<registry, hasAttempts, client, nTemp, transport>>

\* ------------------------------------------------------------- environment
\* The link of a connected client is lost without any call of the program.
LinkLost(h) ==
    /\ linkUp[h]
    /\ Closed(h)
    /\ UNCHANGED <<registry, hasAttempts, client, nTemp, tasks, pure>>

\* The steps of the tasks T when callers name the addresses A.
NextOf(T, A) ==
    \/ \E t \in T, target \in TargetsOf(A) : MgrConnectCall(t, target)
    \/ \E t \in T, d \in Devs : DevConnectCall(t, d)
    \/ \E t \in T, ok \in BOOLEAN : OpenDone(t, ok)
    \/ \E t \in T, ok \in BOOLEAN : NotifyDone(t, ok)
    \/ \E t \in T, d \in Devs : DevDisconnectCall(t, d)
    \/ \E t \in T, ok \in BOOLEAN : CloseDone(t, ok)
    \/ \E t \in T : DisconnectAllCall(t)
    \/ \E t \in T, ok \in BOOLEAN : DisconnectAllStep(t, ok)
    \/ \E t \in T, d \in Devs : IsConnectedCall(t, d)
    \/ \E t \in T : StatusDone(t)
    \/ \E t \in T, d \in Devs, op \in CommandOps : CommandCall(t, d, op)
    \/ \E t \in T : VerifyDone(t)
    \/ \E t \in T, ok \in BOOLEAN : WriteDone(t, ok)
    \/ \E t \in T : SleepDone(t)
    \/ \E t \in T, ok \in BOOLEAN : ReadDone(t, ok)
    \/ \E t \in T : DiscoverCall(t)
    \/ \E t \in T, scan \in ScanResults : DiscoverDone(t, scan)
    \/ \E t \in T : Return(t)
    \/ \E h \in Handles : LinkLost(h)

\* The steps of test_retrieve_state run by the tasks T.
TestOf(T) ==
    \/ \E t \in T, d \in Devs : TestCall(t, d)
    \/ \E t \in T, ok \in BOOLEAN : TestOpenDone(t, ok)
    \/ \E t \in T, ok \in BOOLEAN : TestCloseDone(t, ok)

\* Two tasks run the operations of the registry and of the session
\* concurrently against one address.
Next == NextOf(Tasks, {"a1"})

\* One task calls every operation, one call at a time, on two addresses.
NextSeq == NextOf({"t1"}, Addresses) \/ TestOf({"t1"})

\* One task calls every operation, one call at a time, on one address.
NextOne == NextOf({"t1"}, {"a1"}) \/ TestOf({"t1"})

Spec == Init /\ [][Next]_vars

SpecSeq == Init /\ [][NextSeq]_vars

SpecOne == Init /\ [][NextOne]_vars

\* ------------------------------------------------------------------ claims
ConnectOps == {"mgr_connect", "dev_connect"}

\* The devices constructed for an address.
DevicesOf(a) == {d \in Created : devAddr[d] = a}

Returned(t) == tasks[t].pc = "done" /\ tasks[t].err = "none"

\* C1: whatever calls came before, no address has two devices, the device
\* registered for an address is never replaced, and the step in which
\* PranaDeviceManager.connect returns hands out the device registered for
\* the address: two calls for one address return the same device.
C1_SameInstance ==
    [][/\ \A a \in Addresses :
              /\ Cardinality(DevicesOf(a)) <= 1
              /\ managed[a] # NoDev => managed'[a] = managed[a]
       /\ \A t \in Tasks :
              (tasks[t].pc = "c_notify" /\ tasks'[t].pc = "done"
                   /\ tasks'[t].err = "none" /\ tasks[t].op = "mgr_connect")
                  => /\ tasks'[t].rdev = managed[tasks[t].addr]
                     /\ tasks'[t].rdev # NoDev]_vars

\* C1 witness: a connect returns the registered device of an address whose
\* session had been connected and disconnected before the call.
C1_Witness ==
    \E t \in Tasks :
        /\ Returned(t) /\ tasks[t].op = "mgr_connect"
        /\ tasks[t].flag0 /\ ~tasks[t].conn0
        /\ tasks[t].rdev = managed[tasks[t].addr]
        /\ nDev = 2

\* C2: a command called on a device whose flag is unset ends at once with
\* the not-connected error, without any transport operation.
C2_NotConnectedNoIO ==
    \A t \in Tasks :
        (tasks[t].op \in CommandOps /\ ~tasks[t].flag0)
            => /\ tasks[t].pc = "done"
               /\ tasks[t].err = "RuntimeError"
               /\ tasks[t].trace = <<>>

\* C2 witness: read_state was called on a device that never connected.
C2_Witness ==
    \E t \in Tasks :
        /\ tasks[t].op = "read_state" /\ ~tasks[t].flag0
        /\ tasks[t].pc = "done" /\ tasks[t].err = "RuntimeError"

\* C3 (the claim as stated): a connect that returns on a session that was
\* already connected when it was called leaves at most one notification
\* subscription on the session's client.
C3_ConnectIdempotent ==
    \A t \in Tasks :
        (Returned(t) /\ tasks[t].op \in ConnectOps /\ tasks[t].conn0)
            => subs[client[tasks[t].dev]] <= 1

\* C4 (the claim as stated): when disconnect_all ends, disconnect has been
\* invoked on every managed device.
C4_DisconnectsAll ==
    \A t \in Tasks :
        (tasks[t].op = "disconnect_all" /\ tasks[t].pc = "done")
            => tasks[t].visited = {managed[a] : a \in {x \in Addresses : managed[x] # NoDev}}

\* C5 (the claim as stated): after a connect whose transport open failed
\* the device's flag is set.
C5_FailedOpenSetsFlag ==
    \A t \in Tasks :
        (tasks[t].op \in ConnectOps /\ tasks[t].pc = "done" /\ tasks[t].trace = <<"open">>)
            => hasAttempts[tasks[t].dev]

\* C5 (amended): the step in which a connect's transport open fails leaves
\* every device's flag as it was.
C5_FailedOpenKeepsFlag ==
    [][\A t \in Tasks :
          (tasks[t].pc = "c_open" /\ tasks'[t].pc = "done" /\ tasks'[t].err # "none")
              => hasAttempts' = hasAttempts]_vars

\* C5 witness: the first connect of a device failed in the transport open
\* and the device's flag is unset.
C5_Witness ==
    \E t \in Tasks :
        /\ tasks[t].op \in ConnectOps /\ tasks[t].pc = "done"
        /\ tasks[t].trace = <<"open">> /\ tasks[t].err = "TransportError"
        /\ ~tasks[t].flag0 /\ ~hasAttempts[tasks[t].dev]

\* C6: is_connected called with the flag unset answers False at once and
\* asks nothing of the client; called with the flag set it asks the
\* device's client and answers what the client reports when it answers.
C6_IsConnected ==
    [][\A t \in Tasks :
          /\ (tasks[t].pc = "idle" /\ tasks'[t].op = "is_connected")
                 => IF ~hasAttempts[tasks'[t].dev]
                    THEN /\ tasks'[t].pc = "done" /\ tasks'[t].rbool = FALSE
                         /\ tasks'[t].trace = <<>>
                    ELSE /\ tasks'[t].pc = "q_status" /\ tasks'[t].trace = <<"status">>
                         /\ tasks'[t].h = client[tasks'[t].dev]
          /\ (tasks[t].pc = "q_status" /\ tasks'[t].pc = "done")
                 => tasks'[t].rbool = linkUp[tasks[t].h]]_vars

\* C6 witness: the flag is set, the link was lost, and is_connected
\* answered False.
C6_Witness ==
    \E t \in Tasks :
        /\ tasks[t].op = "is_connected" /\ tasks[t].pc = "done"
        /\ tasks[t].flag0 /\ hasAttempts[tasks[t].dev]
        /\ tasks[t].trace = <<"status">> /\ ~tasks[t].rbool

\* A task is between the write and the read of a command exchange.
InExchange(t) == tasks[t].pc \in {"w_sleep", "w_read"}

\* C7 (the claim as stated): two exchanges on one device never overlap,
\* and read_state returns the value its own request produced.
C7_OneExchangeAtATime ==
    /\ \A t1, t2 \in Tasks :
           (t1 # t2 /\ InExchange(t1) /\ InExchange(t2)) => tasks[t1].dev # tasks[t2].dev
    /\ \A t \in Tasks :
           (Returned(t) /\ tasks[t].op = "read_state") => tasks[t].rval = t

\* C8: an address never has two devices, and every connect call of the
\* registry in progress or returned holds the device stored for its address.
C8_OneDevicePerAddress ==
    /\ \A a \in Addresses : Cardinality(DevicesOf(a)) <= 1
    /\ \A t \in Tasks :
           (tasks[t].op = "mgr_connect" /\ tasks[t].dev # NoDev)
               => /\ tasks[t].dev = managed[tasks[t].addr]
                  /\ Returned(t) => tasks[t].rdev = managed[tasks[t].addr]

\* C8 witness: two connect calls for the same address, both started before
\* any connect of that address had succeeded, both returned the same device.
C8_Witness ==
    \A t \in Tasks :
        /\ Returned(t) /\ tasks[t].op = "mgr_connect"
        /\ ~tasks[t].flag0
        /\ tasks[t].rdev = 1 /\ nDev = 1

\* C9 (the claim as stated): disconnect called with the flag unset issues
\* no transport operation and does not fail.
C9_DisconnectNoOp ==
    \A t \in Tasks :
        (tasks[t].op = "dev_disconnect" /\ ~tasks[t].flag0)
            => tasks[t].trace = <<>> /\ tasks[t].err = "none"

\* C10: no step of a command (its call, each completion of a transport
\* operation, its failure) changes a device's flag or the registry.
C10_CommandKeepsFlag ==
    [][\A t \in Tasks :
          (tasks'[t].cmd \in CommandOps /\ tasks'[t] # tasks[t])
              => /\ hasAttempts' = hasAttempts
                 /\ managed' = managed /\ order' = order]_vars

\* C10 witness: a command failed with a transport error on a device whose
\* flag is set.
C10_Witness ==
    \E t \in Tasks :
        /\ tasks[t].op \in CommandOps /\ tasks[t].pc = "done"
        /\ tasks[t].err = "TransportError"
        /\ tasks[t].flag0 /\ hasAttempts[tasks[t].dev]

\* The payload starts with the state marker 0xBE 0xEF.
HasMarker(bytes) == Len(bytes) >= 2 /\ bytes[1] = 190 /\ bytes[2] = 239

\* The q with 10 * q <= b < 10 * q + 10.
Tenth(b) == CHOOSE q \in 0..b : 10 * q <= b /\ b < 10 * q + 10

\* C11: the decoder returns None for a payload whose first two bytes are not
\* 0xBE 0xEF; for a payload of at least 43 bytes that starts with them it
\* returns a state whose booleans say whether the bytes at offsets 10, 14,
\* 16, 20, 22, 28, 32, 42 are non-zero and whose speeds are the bytes at
\* offsets 26, 30, 34 integer-divided by 10.
C11_Decoder ==
    decoded.kind # "pending" =>
        /\ ~HasMarker(payload) => decoded.kind = "None"
        /\ (HasMarker(payload) /\ Len(payload) >= 43) =>
               /\ decoded.kind = "PranaState"
               /\ decoded.s.is_on = (payload[11] # 0)
               /\ decoded.s.mini_heating_enabled = (payload[15] # 0)
               /\ decoded.s.night_mode = (payload[17] # 0)
               /\ decoded.s.auto_mode = (payload[21] # 0)
               /\ decoded.s.flows_locked = (payload[23] # 0)
               /\ decoded.s.is_input_fan_on = (payload[29] # 0)
               /\ decoded.s.is_output_fan_on = (payload[33] # 0)
               /\ decoded.s.winter_mode_enabled = (payload[43] # 0)
               /\ decoded.s.speed_locked = Tenth(payload[27])
               /\ decoded.s.speed_in = Tenth(payload[31])
               /\ decoded.s.speed_out = Tenth(payload[35])

\* C11 witness: a marked payload of 43 bytes whose byte at offset 30 is 255
\* and whose other bytes are zero was decoded to speed_in 25 with the
\* exhaust fan off.
C11_Witness ==
    /\ decoded.kind # "pending" /\ HasMarker(payload) /\ Len(payload) = 43
    /\ payload[31] = 255 /\ payload[33] = 0
    /\ decoded.kind = "PranaState"
    /\ decoded.s.speed_in = 25 /\ ~decoded.s.is_output_fan_on

EdgeWhitespace(s) == s # <<>> /\ (s[1] \in Whitespace \/ s[Len(s)] \in Whitespace)

\* The number of places of s at which p occurs.
Occurrences(s, p) ==
    Cardinality({i \in 1..(Len(s) - Len(p) + 1) : SubSeq(s, i, i + Len(p) - 1) = p})

\* C12 (the claim as stated): the friendly name of every returned identity
\* does not contain the prefix and has no leading or trailing whitespace.
C12_NameWithoutPrefix ==
    found.ready =>
        \A k \in 1..Len(found.devs) :
            /\ ~Contains(found.devs[k].name, PRANA_DEVICE_NAME_PREFIX)
            /\ ~EdgeWhitespace(found.devs[k].name)

\* C12 (amended): the friendly name of every returned identity has no
\* leading or trailing whitespace, and it does not contain the prefix when
\* the advertised name contains the prefix once only.
C12_NameTrimmed ==
    found.ready =>
        \A k \in 1..Len(found.devs) :
            /\ ~EdgeWhitespace(found.devs[k].name)
            /\ Occurrences(found.devs[k].bt_device_name, PRANA_DEVICE_NAME_PREFIX) <= 1
                   => ~Contains(found.devs[k].name, PRANA_DEVICE_NAME_PREFIX)

\* C12 witness: the name "PRNAQaq x " was advertised and the identity
\* returned for it has the friendly name "x".
C12_Witness ==
    /\ found.ready /\ Len(scanned) = 1
    /\ scanned[1].name = PRANA_DEVICE_NAME_PREFIX \o <<" ", "x", " ">>
    /\ Len(found.devs) = 1 /\ found.devs[1].name = <<"x">>

\* The advertisement names a Prana device: it has a name, the name is not
\* empty, and its first characters are the prefix.
Accepted(adv) ==
    /\ adv.hasName /\ adv.name # <<>>
    /\ Len(adv.name) >= Len(PRANA_DEVICE_NAME_PREFIX)
    /\ \A i \in 1..Len(PRANA_DEVICE_NAME_PREFIX) : adv.name[i] = PRANA_DEVICE_NAME_PREFIX[i]

\* The positions of the accepted advertisements of a scan.
AcceptedAt(scan) == {i \in 1..Len(scan) : Accepted(scan[i])}

\* C13: discover returns one identity for each advertisement whose name is
\* not empty and starts with the prefix, none for any other, and the
\* identities stand in the order of their advertisements.
C13_FilterKeepsOrder ==
    found.ready =>
        /\ Len(found.devs) = Cardinality(AcceptedAt(scanned))
        /\ \A i \in AcceptedAt(scanned) :
               LET k == Cardinality({j \in AcceptedAt(scanned) : j <= i}) IN
               /\ found.devs[k].address = scanned[i].address
               /\ found.devs[k].rssi = scanned[i].rssi

\* C13 witness: of three advertisements the first carries the prefix after
\* other text, the second has no name, and the third starts with the
\* prefix; only the third was returned.
C13_Witness ==
    /\ found.ready /\ Len(scanned) = 3
    /\ scanned[1].name = Other /\ ~scanned[2].hasName /\ scanned[3].name = LivingRoom
    /\ Len(found.devs) = 1 /\ found.devs[1].rssi = scanned[3].rssi

\* C14: PranaDeviceManager.connect called with a target that is neither a
\* string nor a PranaDeviceInfo ends at once with the invalid-target error:
\* the step of the call changes neither the registry nor any device nor the
\* transport, and the call has awaited no operation and holds no device.
C14_InvalidTarget ==
    [][\A t \in Tasks :
          (tasks[t].pc = "idle" /\ tasks'[t].op = "mgr_connect" /\ tasks'[t].badTarget)
              => /\ tasks'[t].pc = "done" /\ tasks'[t].err = "ValueError"
                 /\ tasks'[t].trace = <<>> /\ tasks'[t].dev = NoDev
                 /\ UNCHANGED <<registry, hasAttempts, client, transport>>]_vars

\* C14 witness: connect was called with an invalid target while a session
\* was registered, and it raised the invalid-target error.
C14_Witness ==
    \E t \in Tasks :
        /\ tasks[t].op = "mgr_connect" /\ tasks[t].badTarget
        /\ tasks[t].pc = "done" /\ tasks[t].err = "ValueError"
        /\ nDev = 1 /\ order = <<"a1">>

\* The write, the settle delay and the read a call has awaited, in order.
ExchangeOf(t) ==
    SelectSeq(tasks[t].trace, LAMBDA what : what \in {"write", "sleep", "read"})

FullExchange == <<"write", "sleep", "read">>

\* C15: a command exchange awaits the write, the settle delay and the read
\* once each and in that order; the read is awaited whether or not a reply
\* is expected; _send_command returns the bytes read when a reply is
\* expected (read_state) and nothing otherwise; and when the write fails
\* the call ends without the delay and without the read.
C15_Exchange ==
    [][\A t \in Tasks :
          /\ \E n \in 0..3 : ExchangeOf(t) = SubSeq(FullExchange, 1, n)
          /\ (Returned(t) /\ tasks[t].op \in CommandOps)
                 => /\ ExchangeOf(t) = FullExchange
                    /\ tasks[t].rbytes = IF tasks[t].op = "read_state"
                                         THEN SomeBytes(tasks[t].result) ELSE NoBytes
          /\ (tasks[t].pc = "w_write" /\ tasks'[t] # tasks[t])
                 => IF tasks'[t].err = "none"
                    THEN /\ tasks'[t].pc = "w_sleep"
                         /\ tasks'[t].trace = Append(tasks[t].trace, "sleep")
                    ELSE /\ tasks'[t].pc \in {"done", "tr_close"}
                         /\ tasks'[t].h # NoHandle => tasks'[t].trace = Append(tasks[t].trace, "close")
                         /\ tasks'[t].h = NoHandle => tasks'[t].trace = tasks[t].trace
          /\ (tasks[t].pc = "w_sleep" /\ tasks'[t] # tasks[t])
                 => /\ tasks'[t].pc = "w_read"
                    /\ tasks'[t].trace = Append(tasks[t].trace, "read")]_vars

\* C15 witness: set_high_speed returned after the write, the delay and the
\* read, the read delivered a state message, and the call returned nothing.
C15_Witness ==
    \E t \in Tasks :
        /\ Returned(t) /\ tasks[t].op = "set_high_speed"
        /\ tasks[t].trace = <<"status", "write", "sleep", "read">>
        /\ HasMarker(tasks[t].result) /\ ~tasks[t].rbytes.some

\* C16: a device whose client (the one it was constructed with or the one
\* it holds) carries a notification registration has its flag set, and the
\* client's link was opened; a connect awaits the open once, and the
\* registration only after it; and the step in which the open of a connect
\* fails ends the call and registers nothing.
C16_SubscribeAfterOpen ==
    [][/\ \A d \in Created : \A h \in {d, client[d]} :
              subs[h] > 0 => hasAttempts[d] /\ linkUp[h]
       /\ \A t \in Tasks :
              /\ (tasks[t].op \in ConnectOps /\ tasks[t].dev # NoDev)
                     => /\ tasks[t].trace \in {<<"open">>, <<"open", "subscribe">>}
                        /\ tasks[t].trace = <<"open", "subscribe">> => hasAttempts[tasks[t].dev]
              /\ (tasks[t].pc = "c_open" /\ tasks'[t].err # "none")
                     => /\ tasks'[t].pc = "done" /\ tasks'[t].trace = <<"open">>
                        /\ subs' = subs]_vars

\* C16 witness: a connect called on a device whose flag was unset
\* returned, the flag is set and the client carries one registration.
C16_Witness ==
    \E t \in Tasks :
        /\ Returned(t) /\ tasks[t].op = "dev_connect" /\ ~tasks[t].flag0
        /\ tasks[t].trace = <<"open", "subscribe">>
        /\ subs[client[tasks[t].dev]] = 1 /\ hasAttempts[tasks[t].dev]

\* C17: read_state on a connected device whose read delivers bytes that do
\* not start with 0xBE 0xEF returns None, raises nothing, and leaves the
\* device's flag as it was when the call started.
C17_UnmarkedReadIsNone ==
    \A t \in Tasks :
        (tasks[t].op = "read_state" /\ tasks[t].pc = "done"
             /\ ExchangeOf(t) = FullExchange /\ tasks[t].rbytes.some
             /\ ~HasMarker(tasks[t].result))
            => /\ tasks[t].err = "none"
               /\ tasks[t].rstate.kind = "None"
               /\ hasAttempts[tasks[t].dev] = tasks[t].flag0

\* C17 witness: read_state read 43 bytes that start with 0x00 0xEF and
\* returned None.
C17_Witness ==
    \E t \in Tasks :
        /\ Returned(t) /\ tasks[t].op = "read_state"
        /\ Len(tasks[t].result) = 43 /\ ~HasMarker(tasks[t].result)
        /\ tasks[t].rstate.kind = "None" /\ hasAttempts[tasks[t].dev]

\* s is a leading part of r.
IsPrefix(s, r) == Len(s) <= Len(r) /\ SubSeq(r, 1, Len(s)) = s

\* C18: the registry only grows: no step removes an address or puts another
\* device in its place, every constructed device stays registered for its
\* address whatever became of its connects, and a connect for an address
\* that is registered takes the registered device and constructs none.
C18_RegistryGrows ==
    [][/\ \A a \in Addresses : managed[a] # NoDev => managed'[a] = managed[a]
       /\ IsPrefix(order, order')
       /\ \A d \in Created : managed[devAddr[d]] = d
       /\ \A t \in Tasks :
              (tasks[t].pc = "idle" /\ tasks'[t].op = "mgr_connect"
                   /\ ~tasks'[t].badTarget /\ managed[tasks'[t].addr] # NoDev)
                  => /\ tasks'[t].dev = managed[tasks'[t].addr]
                     /\ nDev' = nDev]_vars

\* C18 witness: two addresses are registered, the device of the first
\* never connected (its first connect failed), the session of the second is
\* closed, and a later connect for the first address returned the device
\* registered first.
C18_Witness ==
    \E t \in Tasks :
        /\ Returned(t) /\ tasks[t].op = "mgr_connect" /\ ~tasks[t].flag0
        /\ Len(order) = 2 /\ tasks[t].addr = order[1]
        /\ tasks[t].rdev = 1 /\ managed[order[1]] = 1 /\ nDev = 2
        /\ ~linkUp[client[managed[order[2]]]]

\* C19: the flag of a device is unset until the device is constructed, no
\* step unsets it, and the only step that sets it is the completion of a
\* successful open awaited by a connect of that device.
C19_FlagMonotone ==
    [][\A d \in Devs :
          /\ d \notin Created => ~hasAttempts[d]
          /\ hasAttempts[d] => hasAttempts'[d]
          /\ (~hasAttempts[d] /\ hasAttempts'[d])
                 => \E t \in Tasks :
                        /\ tasks[t].op \in ConnectOps /\ tasks[t].dev = d
                        /\ tasks[t].pc = "c_open" /\ tasks'[t].pc = "c_notify"
                        /\ tasks'[t].err = "none" /\ linkUp'[tasks[t].h]]_vars

\* C19 witness: disconnect returned on a device whose flag was set, the
\* link is down and the flag is still set.
C19_Witness ==
    \E t \in Tasks :
        /\ Returned(t) /\ tasks[t].op = "dev_disconnect" /\ tasks[t].flag0
        /\ ~linkUp[client[tasks[t].dev]] /\ hasAttempts[tasks[t].dev]

\* The device holds a closed client that is not the one it was constructed
\* with, while the client it was constructed with is open.
HoldsClosedWhileOpen(d) == client[d] # d /\ ~linkUp[client[d]] /\ linkUp[d]

\* C20 (the claim as stated): a device holds the client it was constructed
\* with for as long as it exists, and so never holds a closed client while
\* a client it opened before stays open.
C20_HandleFixed ==
    \A d \in Created : client[d] = d /\ ~HoldsClosedWhileOpen(d)

====
